---- MODULE Spec2Model ----
(***************************************************************************)
(* Model of examples.py: the command line front end that picks a corpus,   *)
(* fetches examples through the rnc client (with one retry on ValueError), *)
(* sorts them by text length and prints the first `count` of them.         *)
(*                                                                         *)
(* Characters are code points, strings of the word are sequences of code   *)
(* points; example texts are TLA+ strings.  The rnc client is the          *)
(* environment: a call either returns a collection of examples or raises.  *)
(***************************************************************************)
EXTENDS Integers, Sequences, FiniteSets, TLC

VARIABLES word, corpusArg, lang, count, markerArg,
          pc, func, calls, corp, idx, shown, output, error

vars == <<word, corpusArg, lang, count, markerArg,
          pc, func, calls, corp, idx, shown, output, error>>

(* ------------------------------ bounds --------------------------------- *)
MaxWordLen == 2
MaxRecords == 2

(* ------------------------- command line inputs ------------------------- *)
\* '1', 'A', 'z', CYRILLIC SMALL LETTER YA
Chars == {49, 65, 122, 1103}

Words == UNION {[1..n -> Chars] : n \in 0..MaxWordLen}

CorpusChoices == {"None", "main", "parallel"}

Langs == {"en", "fr"}

Markers == {"upper", "hide"}

Counts == {-5, 0, 1, 10, 25}

(* ------------------------------ constants ------------------------------ *)
LEFT_RUS_BORDER == 1072
RIGHT_RUS_BORDER == 1103
LEFT_ENG_BORDER == 97
RIGHT_ENG_BORDER == 122

(* --------------------------- script classifier ------------------------- *)
isalpha(c) == c \in (65..90) \cup (97..122) \cup (1040..1103) \cup {1025, 1105}

lower(c) ==
    IF c \in (65..90) \cup (1040..1071) THEN c + 32
    ELSE IF c = 1025 THEN 1105
    ELSE c

MinOf(S) == CHOOSE x \in S : \A y \in S : x <= y

MaxOf(S) == CHOOSE x \in S : \A y \in S : x >= y

min_letter_index(string) ==
    IF string = <<>> THEN -1
    ELSE MinOf({IF isalpha(string[i]) THEN lower(string[i]) ELSE 2000
                   : i \in DOMAIN string})

max_letter_index(string) ==
    IF string = <<>> THEN -1
    ELSE MaxOf({IF isalpha(string[i]) THEN lower(string[i]) ELSE -1
                   : i \in DOMAIN string})

is_russian(string) ==
    /\ min_letter_index(string) >= LEFT_RUS_BORDER
    /\ max_letter_index(string) <= RIGHT_RUS_BORDER

is_english(string) ==
    /\ min_letter_index(string) >= LEFT_ENG_BORDER
    /\ max_letter_index(string) <= RIGHT_ENG_BORDER

(* ------------------------------ fetching ------------------------------- *)
\* keyword arguments are sets of <<name, value>> pairs
KwGet(kwargs, name, default) ==
    IF \E p \in kwargs : p[1] = name
    THEN (CHOOSE p \in kwargs : p[1] = name)[2]
    ELSE default

KwDrop(kwargs, name) == {p \in kwargs : p[1] # name}

\* rnc.mycorp[language]: the subcorpus query of a language
mycorp(language) == "mycorp[" \o language \o "]"

\* count // 10 or 1
Pages(n) == IF n \div 10 # 0 THEN n \div 10 ELSE 1

\* the Corpus constructor call made by get()
get(w, n, corpus, kwargs) ==
    [cls |-> corpus, word |-> w, pages |-> Pages(n), dpp |-> 5,
     sort |-> "random", kwargs |-> kwargs]

get_russian(w, n, kwargs) == get(w, n, "MainCorpus", kwargs)

get_parallel(w, n, kwargs) ==
    get(w, n, "ParallelCorpus",
        {<<"mycorp", mycorp(KwGet(kwargs, "language", "en"))>>}
            \cup KwDrop(kwargs, "language"))

FUNC(name) == IF name = "main" THEN "get_russian" ELSE "get_parallel"

FUNC_get(name) == IF name \in {"main", "parallel"} THEN FUNC(name) ELSE "None"

CallFunc(f, w, n, kwargs) ==
    IF f = "get_russian" THEN get_russian(w, n, kwargs)
    ELSE get_parallel(w, n, kwargs)

(* ----------------------- the rnc client (environment) ------------------ *)
MainExamples ==
    { [kind |-> "MainExample", txt |-> "ccc", src |-> "s1"],
      [kind |-> "MainExample", txt |-> "a",   src |-> "s2"],
      [kind |-> "MainExample", txt |-> "bb",  src |-> "s3"] }

ParallelExamples(language) ==
    { [kind |-> "ParallelExample", src |-> "p1",
       txt |-> <<[lang |-> "ru", text |-> "rrr"], [lang |-> language, text |-> "e"]>>],
      [kind |-> "ParallelExample", src |-> "p2",
       txt |-> <<[lang |-> language, text |-> "eeee"], [lang |-> "ru", text |-> "r"]>>],
      [kind |-> "ParallelExample", src |-> "p3",
       txt |-> <<[lang |-> "ru", text |-> "rr"], [lang |-> language, text |-> "ee"]>>] }

ExamplesOf(cls) ==
    IF cls = "MainCorpus" THEN MainExamples ELSE ParallelExamples(lang)

Collections(cls) == UNION {[1..n -> ExamplesOf(cls)] : n \in 0..MaxRecords}

Exceptions == {"ValueError", "ConnectionError"}

(* ------------------------- ranking and printing ------------------------ *)
\* example.ru of a ParallelExample
ru(ex) == (CHOOSE i \in DOMAIN ex.txt : ex.txt[i].lang = "ru")

SortKey(cls, ex) ==
    IF cls = "MainCorpus" THEN Len(ex.txt)
    ELSE Len(ex.txt[ru(ex)].text)

RECURSIVE InsertByKey(_, _, _)
InsertByKey(cls, ex, s) ==
    IF s = <<>> THEN <<ex>>
    ELSE IF SortKey(cls, ex) < SortKey(cls, Head(s)) THEN <<ex>> \o s
    ELSE <<Head(s)>> \o InsertByKey(cls, ex, Tail(s))

\* sort_data left out: the collection stays in fetch order
sort_data_skipped(cls, s) == s

\* list.sort(key=...): stable, ascending
RECURSIVE sort_data(_, _)
sort_data(cls, s) ==
    IF s = <<>> THEN <<>>
    ELSE InsertByKey(cls, s[Len(s)], sort_data(cls, SubSeq(s, 1, Len(s) - 1)))

\* s[:n]
SliceTo(s, n) ==
    IF n >= 0 THEN SubSeq(s, 1, IF n < Len(s) THEN n ELSE Len(s))
    ELSE SubSeq(s, 1, IF Len(s) + n > 0 THEN Len(s) + n ELSE 0)

RECURSIVE ItemLines(_)
ItemLines(items) ==
    IF items = <<>> THEN <<>>
    ELSE <<Head(items).lang \o ": " \o Head(items).text>> \o ItemLines(Tail(items))

\* the block without end='\\n\\n': no blank separator line
RenderExampleNoBlank(ex) ==
    (IF ex.kind = "ParallelExample" THEN ItemLines(ex.txt)
     ELSE <<"txt: " \o ex.txt>>)
    \o <<"src: " \o ex.src>>

\* the lines printed for one example by the body of the for loop
RenderExample(ex) ==
    (IF ex.kind = "ParallelExample" THEN ItemLines(ex.txt)
     ELSE <<"txt: " \o ex.txt>>)
    \o <<"src: " \o ex.src, "">>

(* ------------------------------- program ------------------------------- *)
Init ==
    /\ word \in Words
    /\ corpusArg \in CorpusChoices
    /\ lang \in Langs
    /\ count \in Counts
    /\ markerArg \in Markers
    /\ pc = "main"
    /\ func = "None"
    /\ calls = <<>>
    /\ corp = [cls |-> "None", data |-> <<>>]
    /\ idx = 0
    /\ shown = <<>>
    /\ output = <<>>
    /\ error = "None"

\* the keyword arguments main() hands to get_examples
MainKwargs == {<<"marker", markerArg>>, <<"language", lang>>}

\* main(): choice of the fetch function
SelectFunc ==
    /\ pc = "main"
    /\ LET f0 == FUNC_get(corpusArg)
           f1 == IF is_english(word) THEN FUNC("parallel") ELSE f0
       IN  func' = IF f1 = "None" THEN FUNC("main") ELSE f1
    /\ pc' = "try"
    /\ UNCHANGED <<word, corpusArg, lang, count, markerArg,
                   calls, corp, idx, shown, output, error>>

\* a bare `except:` in place of `except ValueError:`
ExceptAny(exc) == TRUE

\* except ValueError
ExceptMatches(exc) == exc = "ValueError"

\* one call func(word, n, **kwargs) and what the client answers
Fetch(n, handled) ==
    LET req == CallFunc(func, word, n, MainKwargs)
    IN  \/ \E res \in Collections(req.cls) :
              /\ calls' = Append(calls, [req |-> req, count |-> n,
                                         outcome |-> "ok", result |-> res])
              /\ corp' = [cls |-> req.cls, data |-> res]
              /\ pc' = "sort"
              /\ error' = error
        \/ \E exc \in Exceptions :
              /\ calls' = Append(calls, [req |-> req, count |-> n,
                                         outcome |-> exc, result |-> <<>>])
              /\ corp' = corp
              /\ IF handled /\ ExceptMatches(exc)
                 THEN pc' = "retry" /\ error' = error
                 ELSE pc' = "raised" /\ error' = exc

\* get_examples: corp = func(word, count, **kwargs) inside try
TryCall ==
    /\ pc = "try"
    /\ Fetch(count, TRUE)
    /\ UNCHANGED <<word, corpusArg, lang, count, markerArg, func, idx, shown, output>>

\* the except branch repeating the call with the caller's count
RetryCallSameCount ==
    /\ pc = "retry"
    /\ Fetch(count, FALSE)
    /\ UNCHANGED <<word, corpusArg, lang, count, markerArg, func, idx, shown, output>>

\* get_examples: corp = func(word, 1, **kwargs) in the except branch
RetryCall ==
    /\ pc = "retry"
    /\ Fetch(1, FALSE)
    /\ UNCHANGED <<word, corpusArg, lang, count, markerArg, func, idx, shown, output>>

\* get_examples: corp.sort_data(key=...)
SortData ==
    /\ pc = "sort"
    /\ corp' = [corp EXCEPT !.data = sort_data(corp.cls, corp.data)]
    /\ idx' = 1
    /\ pc' = "print"
    /\ UNCHANGED <<word, corpusArg, lang, count, markerArg,
                   func, calls, shown, output, error>>

\* get_examples: one iteration of `for ex in corp[:count]`
PrintExample ==
    /\ pc = "print"
    /\ idx <= Len(SliceTo(corp.data, count))
    /\ LET ex == SliceTo(corp.data, count)[idx]
       IN  /\ shown' = Append(shown, ex)
           /\ output' = output \o RenderExample(ex)
    /\ idx' = idx + 1
    /\ UNCHANGED <<word, corpusArg, lang, count, markerArg,
                   pc, func, calls, corp, error>>

\* get_examples: the loop is exhausted, main() returns
Finish ==
    /\ pc = "print"
    /\ idx > Len(SliceTo(corp.data, count))
    /\ pc' = "done"
    /\ UNCHANGED <<word, corpusArg, lang, count, markerArg,
                   func, calls, corp, idx, shown, output, error>>

Next ==
    \/ SelectFunc
    \/ TryCall
    \/ RetryCall
    \/ SortData
    \/ PrintExample
    \/ Finish

Spec == Init /\ [][Next]_vars

(* ------------------------------- claims -------------------------------- *)

\* C1: an explicit --corpus choice is honoured unconditionally: once main()
\* has chosen, the fetch function is the one the explicit choice names, and
\* every client call goes to that corpus.
ExplicitChoiceHonoured ==
    (pc # "main" /\ corpusArg # "None") =>
        /\ func = (IF corpusArg = "main" THEN "get_russian" ELSE "get_parallel")
        /\ \A i \in DOMAIN calls :
              calls[i].req.cls =
                 (IF corpusArg = "main" THEN "MainCorpus" ELSE "ParallelCorpus")

\* C2: after a first attempt that raised ValueError exactly one further
\* attempt is made, with count 1 and so pages 1; its result is used if it
\* succeeds and its error reaches the caller if it fails; the client is
\* called at most twice, the second time only after a ValueError.
RetryPolicy ==
    /\ Len(calls) <= 2
    /\ (Len(calls) >= 1 /\ calls[1].outcome = "ValueError" /\ pc # "retry")
          => Len(calls) = 2
    /\ Len(calls) = 2 =>
          /\ calls[1].outcome = "ValueError"
          /\ calls[2].count = 1
          /\ calls[2].req.pages = 1
          /\ calls[2].outcome = "ok" =>
                /\ pc \in {"sort", "print", "done"}
                /\ error = "None"
                /\ corp.cls = calls[2].req.cls
                /\ Len(corp.data) = Len(calls[2].result)
                /\ \A r \in {corp.data[i] : i \in DOMAIN corp.data} :
                      Cardinality({i \in DOMAIN corp.data : corp.data[i] = r})
                    = Cardinality({i \in DOMAIN calls[2].result :
                                       calls[2].result[i] = r})
          /\ calls[2].outcome # "ok" =>
                /\ pc = "raised"
                /\ error = calls[2].outcome
                /\ output = <<>>

RetryPolicyWitness ==
    /\ pc = "done"
    /\ Len(calls) = 2
    /\ calls[1].req.pages = 2
    /\ calls[2].outcome = "ok"
    /\ calls[2].req.pages = 1
    /\ Len(shown) = 2

\* C3: a failure of the first attempt that is not a ValueError is not
\* recovered: no second attempt, nothing sorted or printed, and the same
\* error reaches the caller.
TransportFailureSurfaces ==
    (Len(calls) >= 1 /\ calls[1].outcome \notin {"ok", "ValueError"}) =>
        /\ Len(calls) = 1
        /\ pc = "raised"
        /\ error = calls[1].outcome
        /\ corp = [cls |-> "None", data |-> <<>>]
        /\ idx = 0
        /\ shown = <<>>
        /\ output = <<>>

TransportFailureWitness ==
    /\ pc = "raised"
    /\ Len(calls) = 1
    /\ calls[1].outcome = "ConnectionError"
    /\ error = "ConnectionError"

\* C4: the classification of the word (is_russian, is_english) equals the
\* classification of the word with its non-alphabetic characters removed.
ClassifierIgnoresNonLetters ==
    LET letters == SelectSeq(word, isalpha)
    IN  /\ is_russian(word) = is_russian(letters)
        /\ is_english(word) = is_english(letters)

\* C5: for count >= 1 the presented records number min(count, fetched),
\* are in ascending order of the length key of their variant, and form a
\* sub-multiset of the fetched collection.
RankAndTruncate ==
    (pc = "done" /\ count >= 1) =>
        LET fetched == calls[Len(calls)].result
            key(ex) == IF ex.kind = "MainExample" THEN Len(ex.txt)
                       ELSE Len(ex.txt[CHOOSE i \in DOMAIN ex.txt :
                                          ex.txt[i].lang = "ru"].text)
        IN  /\ Len(shown) = (IF count < Len(fetched) THEN count ELSE Len(fetched))
            /\ Len(shown) <= count
            /\ \A i \in 1..(Len(shown) - 1) : key(shown[i]) <= key(shown[i + 1])
            /\ \A r \in {shown[i] : i \in DOMAIN shown} :
                  Cardinality({i \in DOMAIN shown : shown[i] = r})
                    <= Cardinality({i \in DOMAIN fetched : fetched[i] = r})

RankAndTruncateWitness ==
    /\ pc = "done"
    /\ count = 10
    /\ Len(calls) = 1
    /\ Len(calls[1].result) = 2
    /\ calls[1].result[1].src \in {"s1", "p1"}
    /\ calls[1].result[2].src \in {"s2", "p2"}
    /\ Len(shown) = 2
    /\ shown[1] = calls[1].result[2]

\* C6: for count >= 1 the parameters computed by get ask for at least
\* count units: pages * dpp >= count.
OverFetch ==
    \A i \in DOMAIN calls :
        calls[i].count >= 1 =>
            calls[i].req.pages * calls[i].req.dpp >= calls[i].count

\* C7: the Primary corpus is constructed with exactly word, pages, dpp = 5,
\* sort = 'random' and the marker, and no language parameter; the Parallel
\* corpus additionally gets the subcorpus of the language.
LanguageForParallelOnly ==
    \A i \in DOMAIN calls :
        /\ calls[i].req.word = word
        /\ calls[i].req.dpp = 5
        /\ calls[i].req.sort = "random"
        /\ calls[i].req.kwargs =
              IF calls[i].req.cls = "MainCorpus"
              THEN {<<"marker", markerArg>>}
              ELSE {<<"marker", markerArg>>, <<"mycorp", "mycorp[" \o lang \o "]">>}

\* C8: the page count handed to the client is max(1, count // 10) for
\* every integer count that reaches get, so it is always >= 1.
PageFormula ==
    \A i \in DOMAIN calls :
        /\ calls[i].req.pages =
              (IF calls[i].count \div 10 > 1 THEN calls[i].count \div 10 ELSE 1)
        /\ calls[i].req.pages >= 1

\* C9: the output is, in ranked order, one block per presented record:
\* 'txt: text' for a single-language record, 'lang: text' per entry of the
\* mapping for an aligned one, then 'src: source' and a blank line; when
\* the loop ends every record of the ranked sequence has its block.
BlockStructure ==
    LET block(ex) ==
            (IF ex.kind = "MainExample" THEN <<"txt: " \o ex.txt>>
             ELSE [i \in DOMAIN ex.txt |->
                      ex.txt[i].lang \o ": " \o ex.txt[i].text])
            \o <<"src: " \o ex.src>> \o <<"">>
        start[i \in 0..Len(shown)] ==
            IF i = 0 THEN 0 ELSE start[i - 1] + Len(block(shown[i]))
    IN  /\ Len(output) = start[Len(shown)]
        /\ \A i \in DOMAIN shown :
              SubSeq(output, start[i - 1] + 1, start[i]) = block(shown[i])
        /\ pc \in {"print", "done"} =>
              shown = SubSeq(SliceTo(corp.data, count), 1, idx - 1)
        /\ pc = "done" => shown = SliceTo(corp.data, count)

BlockStructureWitness ==
    /\ pc = "done"
    /\ Len(shown) = 2
    /\ shown[1].kind = "ParallelExample"
    /\ shown[1].txt[1].lang = "fr"
    /\ shown[1] # shown[2]
    /\ Len(output) = 8

\* C10: the retry passes word, dpp, sort and keyword arguments unchanged;
\* when count // 10 <= 1 it is an exact repeat of the first request; and
\* after a successful retry the records are still truncated with the
\* original count.
RetryRepeatsRequest ==
    Len(calls) = 2 =>
        /\ calls[2].req.cls = calls[1].req.cls
        /\ calls[2].req.word = calls[1].req.word
        /\ calls[2].req.dpp = calls[1].req.dpp
        /\ calls[2].req.sort = calls[1].req.sort
        /\ calls[2].req.kwargs = calls[1].req.kwargs
        /\ count \div 10 <= 1 => calls[2].req = calls[1].req
        /\ (pc = "done" /\ calls[2].outcome = "ok" /\ count >= 1) =>
              Len(shown) = (IF count < Len(calls[2].result) THEN count
                            ELSE Len(calls[2].result))

====
